---- MODULE Spec2Model ----
(***************************************************************************)
(* Madgwick IMU orientation filter (madgwickIMU.hpp) and its driver        *)
(* (main.cpp), modelled at the level of IEEE-754 binary32 bit patterns.    *)
(*                                                                         *)
(* A float is a record [s |-> sign bit, b |-> the low 31 bits of its       *)
(* pattern] (biased exponent * 2^23 + fraction).  All arithmetic is done   *)
(* on integers below 2^31 and rounds to nearest, ties to even, as the      *)
(* single-precision operators of the source do.                            *)
(***************************************************************************)
EXTENDS Integers, Sequences, FiniteSets, TLC

\* ------------------------------------------------------------------------
\* binary32 arithmetic
\* ------------------------------------------------------------------------

P23 == 2^23
InfBits == 255 * P23

Flt(sign, bits) == [s |-> sign, b |-> bits]

FExp(x) == x.b \div P23
FFrac(x) == x.b % P23
IsNaN(x) == x.b > InfBits
IsInf(x) == x.b = InfBits
NaN == Flt(0, InfBits + 2^22)

\* biased exponent (>= 1) and integer significand with value  m * 2^(e-150)
UExp(x) == IF FExp(x) = 0 THEN 1 ELSE FExp(x)
UMan(x) == IF FExp(x) = 0 THEN FFrac(x) ELSE P23 + FFrac(x)

\* number of bits of n, 0 <= n < 2^31
BitLen(n) ==
    IF n >= 65536
    THEN IF n >= 16777216
         THEN IF n >= 268435456
              THEN (IF n >= 1073741824 THEN 31 ELSE IF n >= 536870912 THEN 30 ELSE 29)
              ELSE (IF n >= 67108864 THEN (IF n >= 134217728 THEN 28 ELSE 27)
                    ELSE IF n >= 33554432 THEN 26 ELSE 25)
         ELSE IF n >= 1048576
              THEN (IF n >= 4194304 THEN (IF n >= 8388608 THEN 24 ELSE 23)
                    ELSE IF n >= 2097152 THEN 22 ELSE 21)
              ELSE (IF n >= 262144 THEN (IF n >= 524288 THEN 20 ELSE 19)
                    ELSE IF n >= 131072 THEN 18 ELSE 17)
    ELSE IF n >= 256
         THEN IF n >= 4096
              THEN (IF n >= 16384 THEN (IF n >= 32768 THEN 16 ELSE 15)
                    ELSE IF n >= 8192 THEN 14 ELSE 13)
              ELSE (IF n >= 1024 THEN (IF n >= 2048 THEN 12 ELSE 11)
                    ELSE IF n >= 512 THEN 10 ELSE 9)
         ELSE IF n >= 16
              THEN (IF n >= 64 THEN (IF n >= 128 THEN 8 ELSE 7)
                    ELSE IF n >= 32 THEN 6 ELSE 5)
              ELSE (IF n >= 4 THEN (IF n >= 8 THEN 4 ELSE 3)
                    ELSE IF n >= 2 THEN 2 ELSE IF n = 1 THEN 1 ELSE 0)

\* top with its lowest bit set unless the bits dropped below it were all 0
Jam(top, exact) == IF exact \/ top % 2 = 1 THEN top ELSE top + 1

\* n \div 2^k with the discarded bits or-ed into the last kept bit
ShrJam(n, k) == IF k = 0 THEN n
                ELSE IF k >= 31 THEN (IF n = 0 THEN 0 ELSE 1)
                ELSE Jam(n \div 2^k, n % 2^k = 0)

\* quotient q, remainder r, half the divisor h: q rounded to nearest, ties
\* to even
RoundQuot(q, r, h) == IF r > h \/ (r = h /\ q % 2 = 1) THEN q + 1 ELSE q

\* M * 2^(-sh) rounded to an integer
RoundShift(M, sh) ==
    IF sh <= 0 THEN M * 2^(0 - sh)
    ELSE IF sh >= 31 THEN 0
    ELSE RoundQuot(M \div 2^sh, M % 2^sh, 2^(sh - 1))

\* the pattern of biased exponent e and significand m (m = 2^24 carries into
\* the exponent), or infinity
Pack(sign, e, m) ==
    IF e >= 255 \/ (e - 1) * P23 + m >= InfBits THEN Flt(sign, InfBits)
    ELSE Flt(sign, (e - 1) * P23 + m)

\* the biased exponent of a result: 1 (the denormals') at least
ExpFloor(e) == IF e < 1 THEN 1 ELSE e

\* M * 2^E rounded at biased exponent e
RoundAt(sign, M, E, e) == Pack(sign, e, RoundShift(M, (e - 150) - E))

\* the binary32 nearest (ties to even) to  M * 2^E,  0 < M < 2^30; when M is
\* not exact its lowest bit is a sticky bit and M has at least 26 bits
Round(sign, M, E) == RoundAt(sign, M, E, ExpFloor(E + BitLen(M) + 126))

\* the significand of a denormal shifted left by k so that its bit 23 is set
NormDen(b, k) == [m |-> b * 2^k, e |-> 1 - k]

\* significand with bit 23 set and the matching exponent, of x # 0
Norm(x) == IF x.b >= P23 THEN [m |-> P23 + (x.b % P23), e |-> x.b \div P23]
           ELSE NormDen(x.b, 24 - BitLen(x.b))

fneg(x) == Flt(1 - x.s, x.b)

\* the exact 48-bit product of two 24-bit significands, as 30 bits whose
\* lowest is sticky; the significands are split into 12-bit halves
MulParts(hh, t, lo) ==
    Jam((hh + (t \div 4096)) * 64 + ((t % 4096) \div 64),
        t % 64 = 0 /\ lo % 4096 = 0)

MulCross(ah, al, ch, cl) ==
    MulParts(ah * ch, (ah * cl) + (al * ch) + ((al * cl) \div 4096), al * cl)

MulMan(a, c) == MulCross(a \div 4096, a % 4096, c \div 4096, c % 4096)

MulNorm(sign, nx, ny) == Round(sign, MulMan(nx.m, ny.m), nx.e + ny.e - 282)

fmul(x, y) ==
    IF x.b >= InfBits \/ y.b >= InfBits
    THEN (IF IsNaN(x) \/ IsNaN(y) \/ x.b = 0 \/ y.b = 0 THEN NaN
          ELSE Flt((x.s + y.s) % 2, InfBits))
    ELSE IF x.b = 0 \/ y.b = 0 THEN Flt((x.s + y.s) % 2, 0)
    ELSE MulNorm((x.s + y.s) % 2, Norm(x), Norm(y))

\* mb +/- ms with the sign of the larger operand
AddMan(sign, M, E) == IF M = 0 THEN Flt(0, 0) ELSE Round(sign, M, E)

\* big + sml for finite operands with |big| >= |sml|, three guard bits kept
AddOrdered(big, sml) ==
    AddMan(big.s,
           IF big.s = sml.s
           THEN UMan(big) * 8 + ShrJam(UMan(sml) * 8, UExp(big) - UExp(sml))
           ELSE UMan(big) * 8 - ShrJam(UMan(sml) * 8, UExp(big) - UExp(sml)),
           UExp(big) - 153)

fadd(x, y) ==
    IF x.b >= InfBits \/ y.b >= InfBits
    THEN (IF IsNaN(x) \/ IsNaN(y) THEN NaN
          ELSE IF IsInf(x) THEN (IF IsInf(y) /\ y.s # x.s THEN NaN ELSE x)
          ELSE y)
    ELSE IF x.b = 0 /\ y.b = 0 THEN Flt(IF x.s = y.s THEN x.s ELSE 0, 0)
    ELSE IF x.b >= y.b THEN AddOrdered(x, y) ELSE AddOrdered(y, x)

fsub(x, y) == fadd(x, fneg(y))

\* long division: k more quotient bits of r/d, then a sticky bit
RECURSIVE DivBits(_, _, _, _)
DivBits(r, q, d, k) ==
    IF k = 0 THEN (IF r = 0 THEN 2 * q ELSE 2 * q + 1)
    ELSE IF 2 * r >= d THEN DivBits(2 * r - d, 2 * q + 1, d, k - 1)
         ELSE DivBits(2 * r, 2 * q, d, k - 1)

DivNorm(sign, nx, ny) ==
    Round(sign, DivBits(nx.m % ny.m, nx.m \div ny.m, ny.m, 26), nx.e - ny.e - 27)

fdiv(x, y) ==
    IF IsNaN(x) \/ IsNaN(y) THEN NaN
    ELSE IF IsInf(x) THEN (IF IsInf(y) THEN NaN ELSE Flt((x.s + y.s) % 2, InfBits))
    ELSE IF IsInf(y) THEN Flt((x.s + y.s) % 2, 0)
    ELSE IF y.b = 0 THEN (IF x.b = 0 THEN NaN ELSE Flt((x.s + y.s) % 2, InfBits))
    ELSE IF x.b = 0 THEN Flt((x.s + y.s) % 2, 0)
    ELSE DivNorm((x.s + y.s) % 2, Norm(x), Norm(y))

\* operator== of two floats: NaN equals nothing, -0 equals +0
feq(x, y) == /\ ~IsNaN(x)
             /\ ~IsNaN(y)
             /\ \/ x = y
                \/ x.b = 0 /\ y.b = 0

\* the float nearest to the non-negative integer n, and to the decimal
\* literal num/den (both below 2^30)
IntF(n) == IF n = 0 THEN Flt(0, 0) ELSE Round(0, n, 0)
Lit(num, den) == fdiv(IntF(num), IntF(den))

\* the literals of the update: exponent field * 2^23 + fraction
Zero == Flt(0, 0)
Half == Flt(0, 126 * P23)
One == Flt(0, 127 * P23)
ThreeHalves == Flt(0, 127 * P23 + 2^22)
Two == Flt(0, 128 * P23)
Four == Flt(0, 129 * P23)
Eight == Flt(0, 130 * P23)

\* ------------------------------------------------------------------------
\* data types
\* ------------------------------------------------------------------------

quat(x, y, z, s) == [x |-> x, y |-> y, z |-> z, s |-> s]
coords3d(x, y, z) == [x |-> x, y |-> y, z |-> z]

\* ------------------------------------------------------------------------
\* madgwick::invSqrt
\* ------------------------------------------------------------------------

Magic == 1597463007

\* i = 0x5f3759df - (i>>1) on the pattern of y as  *(long*)&y  loads it, then
\* y = *(float*)&i.  The low 31 bits of i>>1 are pattern(y) >> 1.  Its bit 31
\* is `top`: where long has 32 bits it is the copy of y's sign bit; where
\* long has 64 bits the load runs 4 bytes past y and bit 31 is the lowest
\* bit of whatever lies there.
\* the estimate with the shift left out: 0x5f3759df - i
PunEstimateNoShift(y, top) ==
    LET d == Magic - y.b
        sign == IF d >= 0 THEN 0 ELSE 1
        bits == IF d >= 0 THEN d ELSE (2^30 + d) + 2^30
    IN Flt((sign + y.s + top) % 2, bits)

PunEstimate(y, top) ==
    LET low == y.s * 2^30 + (y.b \div 2)
        d == Magic - low
        sign == IF d >= 0 THEN 0 ELSE 1
        bits == IF d >= 0 THEN d ELSE (2^30 + d) + 2^30
    IN Flt((sign + top) % 2, bits)

\* invSqrt without the Newton step
invSqrtNoNewton(x, top) == PunEstimate(x, top)

\* invSqrt as 1/sqrt would behave at 0: an infinite result
invSqrtInfAtZero(x, top) ==
    IF x.b = 0 THEN Flt(top, InfBits)
    ELSE LET y == PunEstimate(x, top)
         IN fmul(y, fsub(ThreeHalves, fmul(fmul(fmul(Half, x), y), y)))

invSqrt(x, top) ==
    LET halfx == fmul(Half, x)
        y == PunEstimate(x, top)
    IN fmul(y, fsub(ThreeHalves, fmul(fmul(halfx, y), y)))

\* the outcomes of that load for a non-negative argument: bit 31 clear
\* (32-bit long), or the adjacent word's lowest bit (64-bit long)
AdjBits == {0, 1}

\* ------------------------------------------------------------------------
\* madgwick::MadgwickAHRSupdateIMU
\* ------------------------------------------------------------------------

Quat4(a, b, c, d) == [q0 |-> a, q1 |-> b, q2 |-> c, q3 |-> d]
Zero4 == Quat4(Zero, Zero, Zero, Zero)

\* the members q0, q1, q2, q3 of the filter f
Q(f) == Quat4(f.q0, f.q1, f.q2, f.q3)

\* Rate of change of quaternion from gyroscope
GyroRate(q, gyro) ==
    Quat4(
        fmul(Half, fsub(fsub(fmul(fneg(q.q1), gyro.x), fmul(q.q2, gyro.y)), fmul(q.q3, gyro.z))),
        fmul(Half, fsub(fadd(fmul(q.q0, gyro.x), fmul(q.q2, gyro.z)), fmul(q.q3, gyro.y))),
        fmul(Half, fadd(fsub(fmul(q.q0, gyro.y), fmul(q.q1, gyro.z)), fmul(q.q3, gyro.x))),
        fmul(Half, fsub(fadd(fmul(q.q0, gyro.z), fmul(q.q1, gyro.y)), fmul(q.q2, gyro.x))))

\* the guard with the feedback block entered unconditionally
AccelValidAlways(accel) == TRUE

\* the guard with a tolerance on the squared magnitude instead of == 0.0f
AccelValidTolerance(accel) ==
    fadd(fadd(fmul(accel.x, accel.x), fmul(accel.y, accel.y)),
         fmul(accel.z, accel.z)).b > Lit(1, 1000000).b

\* the guard of the feedback block
AccelValid(accel) ==
    ~(feq(accel.x, Zero) /\ feq(accel.y, Zero) /\ feq(accel.z, Zero))

AccelNormSq(accel) ==
    fadd(fadd(fmul(accel.x, accel.x), fmul(accel.y, accel.y)), fmul(accel.z, accel.z))

Scale3(v, r) == coords3d(fmul(v.x, r), fmul(v.y, r), fmul(v.z, r))
Scale4(q, r) == Quat4(fmul(q.q0, r), fmul(q.q1, r), fmul(q.q2, r), fmul(q.q3, r))

\* Auxiliary variables to avoid repeated arithmetic
Aux(q) ==
    [_2q0 |-> fmul(Two, q.q0), _2q1 |-> fmul(Two, q.q1),
     _2q2 |-> fmul(Two, q.q2), _2q3 |-> fmul(Two, q.q3),
     _4q0 |-> fmul(Four, q.q0), _4q1 |-> fmul(Four, q.q1),
     _4q2 |-> fmul(Four, q.q2),
     _8q1 |-> fmul(Eight, q.q1), _8q2 |-> fmul(Eight, q.q2),
     q0q0 |-> fmul(q.q0, q.q0), q1q1 |-> fmul(q.q1, q.q1),
     q2q2 |-> fmul(q.q2, q.q2), q3q3 |-> fmul(q.q3, q.q3)]

\* Gradient decent algorithm corrective step (s0..s3, before normalisation)
Descent(q, a, v) ==
    Quat4(
        fsub(fadd(fadd(fmul(v._4q0, v.q2q2), fmul(v._2q2, a.x)), fmul(v._4q0, v.q1q1)),
             fmul(v._2q1, a.y)),
        fadd(fadd(fadd(fsub(fsub(fadd(fsub(fmul(v._4q1, v.q3q3), fmul(v._2q3, a.x)),
                                      fmul(fmul(Four, v.q0q0), q.q1)),
                                 fmul(v._2q0, a.y)),
                            v._4q1),
                       fmul(v._8q1, v.q1q1)),
                  fmul(v._8q1, v.q2q2)),
             fmul(v._4q1, a.z)),
        fadd(fadd(fadd(fsub(fsub(fadd(fadd(fmul(fmul(Four, v.q0q0), q.q2), fmul(v._2q0, a.x)),
                                      fmul(v._4q2, v.q3q3)),
                                 fmul(v._2q3, a.y)),
                            v._4q2),
                       fmul(v._8q2, v.q1q1)),
                  fmul(v._8q2, v.q2q2)),
             fmul(v._4q2, a.z)),
        fsub(fadd(fsub(fmul(fmul(Four, v.q1q1), q.q3), fmul(v._2q1, a.x)),
                  fmul(fmul(Four, v.q2q2), q.q3)),
             fmul(v._2q2, a.y)))

Gradient(q, a) == Descent(q, a, Aux(q))

NormSq(q) ==
    fadd(fadd(fadd(fmul(q.q0, q.q0), fmul(q.q1, q.q1)), fmul(q.q2, q.q2)), fmul(q.q3, q.q3))

\* Apply feedback step: qDot_i -= beta * s_i
ApplyFeedback(qDot, s, beta) ==
    Quat4(fsub(qDot.q0, fmul(beta, s.q0)), fsub(qDot.q1, fmul(beta, s.q1)),
          fsub(qDot.q2, fmul(beta, s.q2)), fsub(qDot.q3, fmul(beta, s.q3)))

\* q_i += qDot_i * k
Advance(q, qDot, k) ==
    Quat4(fadd(q.q0, fmul(qDot.q0, k)), fadd(q.q1, fmul(qDot.q1, k)),
          fadd(q.q2, fmul(qDot.q2, k)), fadd(q.q3, fmul(qDot.q3, k)))

\* Integrate rate of change of quaternion: q_i += qDot_i * (1.0f / sampleFreq)
Integrate(q, qDot, sampleFreq) == Advance(q, qDot, fdiv(One, sampleFreq))

\* store quaternion: the returned quat
StoreQuat(q) == quat(q.q0, q.q1, q.q2, q.q3)

\* the writes to the members, with the gain rescaled along with q0..q3
CommitAndRetune(f, qn) ==
    [f EXCEPT !.q0 = qn.q0, !.q1 = qn.q1, !.q2 = qn.q2, !.q3 = qn.q3,
              !.beta = fmul(f.beta, qn.q0)]

\* the writes to the members q0..q3; no other member is assigned
Commit(f, qn) == [f EXCEPT !.q0 = qn.q0, !.q1 = qn.q1, !.q2 = qn.q2, !.q3 = qn.q3]

\* recipNorm = invSqrt(x), kept with its argument; top is the bit this call
\* picks up (see PunEstimate)
Recip(x, top) == [arg |-> x, ret |-> invSqrt(x, top)]

\* One call of MadgwickAHRSupdateIMU on the filter f, block by block; each
\* block hands the locals it computed to the next.  w lists, in call order,
\* the bit each invSqrt call of this update picks up; it has three entries on
\* the feedback path and one otherwise.  The result holds the filter after
\* the call (mw), the returned quat (ret) and the locals of the call (step):
\* whether the feedback block ran, the argument and the result of every
\* invSqrt call, the normalised gradient s, and qDot as the gyroscope gave it
\* and as it was integrated.

\* store quaternion and return, from the normalised quaternion qn
Finish(f, l, n, qn) ==
    [mw |-> Commit(f, qn),
     ret |-> StoreQuat(qn),
     step |-> [l EXCEPT !.args = Append(@, n.arg), !.rets = Append(@, n.ret)]]

\* q_i *= recipNorm
NormaliseQuat(f, l, qi, n) == Finish(f, l, n, Scale4(qi, n.ret))

\* Normalise quaternion: recipNorm of the integrated quaternion qi
IntegratedNorm(f, l, qi, top) == NormaliseQuat(f, l, qi, Recip(NormSq(qi), top))

\* the integration, from the locals l of the blocks before it
IntegrateRate(f, l, top) ==
    IntegratedNorm(f, l, Integrate(Q(f), l.qDot, f.sampleFreq), top)

\* the feedback block skipped: qDot stays as the gyroscope gave it
SkipFeedback(f, qDotG, w) ==
    IntegrateRate(f, [feedback |-> FALSE, args |-> <<>>, rets |-> <<>>,
                      s |-> Zero4, qDotG |-> qDotG, qDot |-> qDotG], w[1])

\* Apply feedback step, from the normalised gradient s
FeedbackStep(f, qDotG, n1, n2, s, w) ==
    IntegrateRate(f, [feedback |-> TRUE, args |-> <<n1.arg, n2.arg>>,
                      rets |-> <<n1.ret, n2.ret>>, s |-> s, qDotG |-> qDotG,
                      qDot |-> ApplyFeedback(qDotG, s, f.beta)], w[3])

\* s_i *= recipNorm
NormaliseGradient(f, qDotG, n1, g, n2, w) ==
    FeedbackStep(f, qDotG, n1, n2, Scale4(g, n2.ret), w)

\* normalise step magnitude: recipNorm of the gradient g
GradientNorm(f, qDotG, n1, g, w) ==
    NormaliseGradient(f, qDotG, n1, g, Recip(NormSq(g), w[2]), w)

\* accel *= recipNorm, then the corrective step
NormaliseAccel(f, qDotG, accel, n1, w) ==
    GradientNorm(f, qDotG, n1, Gradient(Q(f), Scale3(accel, n1.ret)), w)

\* Compute feedback only if accelerometer measurement valid
Feedback(f, qDotG, accel, w) ==
    IF AccelValid(accel)
    THEN NormaliseAccel(f, qDotG, accel, Recip(AccelNormSq(accel), w[1]), w)
    ELSE SkipFeedback(f, qDotG, w)

MadgwickAHRSupdateIMU(f, gyro, accel, w) ==
    Feedback(f, GyroRate(Q(f), gyro), accel, w)

\* ------------------------------------------------------------------------
\* the filter object, its caller and the inputs
\* ------------------------------------------------------------------------

\* class madgwick: the default member initialisers
madgwick == [sampleFreq |-> Lit(15, 1000), beta |-> Lit(1, 10),
             q0 |-> One, q1 |-> Zero, q2 |-> Zero, q3 |-> Zero]

\* quat(): a default-constructed quat
DefaultQuat == quat(Zero, Zero, Zero, Zero)

\* the sample main() passes
MainGyro == coords3d(Lit(5, 100), Lit(65, 1000), Lit(9, 10))
MainAccel == coords3d(Zero, Zero, Zero)

\* number of update calls explored, for one filter and for a pair of filters
MaxCalls == 2
MaxPairCalls == 2

\* the smallest positive float (a denormal)
Tiny == Flt(0, 1)

\* the samples a call may be given: main()'s; the filter at rest with no
\* accelerometer reading; gravity along +z; main()'s rotation with a tilted
\* reading (0.1, -0.2, 9.7); a reading with one tiny component; a zero
\* reading whose x is the negative zero; and a rotation (-0.3, 0.2, -0.1)
\* with no accelerometer reading
NoRate == coords3d(Zero, Zero, Zero)
Sample(g, a) == [gyro |-> g, accel |-> a]
Samples == {Sample(MainGyro, MainAccel),
            Sample(NoRate, coords3d(Zero, Zero, Zero)),
            Sample(NoRate, coords3d(Zero, Zero, One)),
            Sample(MainGyro, coords3d(Lit(1, 10), fneg(Lit(2, 10)), Lit(97, 10))),
            Sample(NoRate, coords3d(Tiny, Zero, Zero)),
            Sample(MainGyro, coords3d(fneg(Zero), Zero, Zero)),
            Sample(coords3d(fneg(Lit(3, 10)), Lit(2, 10), fneg(Lit(1, 10))), MainAccel)}

\* the samples given to a pair of filters: main()'s, the filter at rest, and
\* gravity along +z
PairSamples == {Sample(MainGyro, MainAccel),
                Sample(NoRate, coords3d(Zero, Zero, Zero)),
                Sample(NoRate, coords3d(Zero, Zero, One))}

AdjSeqs(a) == IF AccelValid(a) THEN [1..3 -> AdjBits] ELSE [1..1 -> AdjBits]

\* mw: the filter main() constructs; ret: the quat its last call returned.
\* calls, pre, gyro, accel, adj, step record the last call: how many calls
\* were made, the filter before it, its arguments, the bits its invSqrt
\* calls picked up and its locals.  mw2, ret2: a second, independent filter.
VARIABLES mw, ret, calls, pre, gyro, accel, adj, step, mw2, ret2

vars == <<mw, ret, calls, pre, gyro, accel, adj, step, mw2, ret2>>

NoStep == [feedback |-> FALSE, args |-> <<>>, rets |-> <<>>,
           s |-> Zero4, qDotG |-> Zero4, qDot |-> Zero4]

Init ==
    /\ mw = madgwick
    /\ ret = DefaultQuat
    /\ calls = 0
    /\ pre = madgwick
    /\ gyro = NoRate
    /\ accel = MainAccel
    /\ adj = <<>>
    /\ step = NoStep
    /\ mw2 = madgwick
    /\ ret2 = DefaultQuat

\* q = mw.MadgwickAHRSupdateIMU(g, a)
Update(g, a, w) ==
    /\ calls < MaxCalls
    /\ \E r \in {MadgwickAHRSupdateIMU(mw, g, a, w)} :
          /\ mw' = r.mw
          /\ ret' = r.ret
          /\ step' = r.step
    /\ calls' = calls + 1
    /\ pre' = mw
    /\ gyro' = g
    /\ accel' = a
    /\ adj' = w
    /\ UNCHANGED <<mw2, ret2>>

Next == \E m \in Samples : \E w \in AdjSeqs(m.accel) : Update(m.gyro, m.accel, w)

Spec == Init /\ [][Next]_vars

\* two filters, constructed alike, given the same sample in the same step
UpdatePair(g, a, w, w2) ==
    /\ calls < MaxPairCalls
    /\ \E r \in {MadgwickAHRSupdateIMU(mw, g, a, w)} :
          /\ mw' = r.mw
          /\ ret' = r.ret
          /\ step' = r.step
    /\ \E r2 \in {MadgwickAHRSupdateIMU(mw2, g, a, w2)} :
          /\ mw2' = r2.mw
          /\ ret2' = r2.ret
    /\ calls' = calls + 1
    /\ pre' = mw
    /\ gyro' = g
    /\ accel' = a
    /\ adj' = w

NextPair == \E m \in PairSamples :
               \E w \in AdjSeqs(m.accel), w2 \in AdjSeqs(m.accel) :
                  UpdatePair(m.gyro, m.accel, w, w2)

SpecPair == Init /\ [][NextPair]_vars

\* ------------------------------------------------------------------------
\* properties
\* ------------------------------------------------------------------------

\* < and <= on floats, and the absolute value
flt(x, y) == /\ ~IsNaN(x)
             /\ ~IsNaN(y)
             /\ ~(x.b = 0 /\ y.b = 0)
             /\ IF x.s # y.s THEN x.s = 1
                ELSE IF x.s = 0 THEN x.b < y.b ELSE x.b > y.b
fle(x, y) == flt(x, y) \/ feq(x, y)
fabs(x) == Flt(0, x.b)

Finite(x) == x.b < InfBits
Finite4(q) == Finite(q.q0) /\ Finite(q.q1) /\ Finite(q.q2) /\ Finite(q.q3)
ZeroVec(v) == v.x.b = 0 /\ v.y.b = 0 /\ v.z.b = 0
Identity == Quat4(One, Zero, Zero, Zero)

\* | a^2 + b^2 + c^2 + d^2 - 1 |, in single precision
NormDev(q) == fabs(fsub(NormSq(q), One))

\* C1: the returned quat holds the vector part (q1, q2, q3) in x, y, z and
\* the scalar part q0 in s.
C1_VectorInXYZ ==
    calls > 0 => ret = quat(mw.q1, mw.q2, mw.q3, mw.q0)

\* C2: after every update the returned and the stored quaternion satisfy
\* |x^2 + y^2 + z^2 + s^2 - 1| <= 1e-3.
C2_UnitNorm1e3 ==
    calls > 0 => /\ fle(NormDev(Quat4(ret.x, ret.y, ret.z, ret.s)), Lit(1, 1000))
                 /\ fle(NormDev(Q(mw)), Lit(1, 1000))

\* C2 (amended): after every update the returned and the stored quaternion
\* satisfy |x^2 + y^2 + z^2 + s^2 - 1| <= 4e-3, the bound one Newton step of
\* invSqrt gives.
C2_UnitNorm4e3 ==
    calls > 0 => /\ fle(NormDev(Quat4(ret.x, ret.y, ret.z, ret.s)), Lit(4, 1000))
                 /\ fle(NormDev(Q(mw)), Lit(4, 1000))

C2_Witness ==
    /\ calls >= 2
    /\ step.feedback
    /\ ~ZeroVec(gyro)
    /\ flt(Lit(1, 1000), NormDev(Q(mw)))

\* C3: a fresh filter stores the identity quaternion, and an update with
\* zero gyro and zero accel leaves the identity quaternion exactly as it is.
C3_IdentityKept ==
    /\ calls = 0 => Q(mw) = Identity
    /\ (calls > 0 /\ ZeroVec(gyro) /\ ZeroVec(accel) /\ Q(pre) = Identity)
          => Q(mw) = Identity

\* q1 = q2 = q3 = 0 and q0^2 within 4e-3 of 1
NearIdentity(q) ==
    /\ q.q1.b = 0
    /\ q.q2.b = 0
    /\ q.q3.b = 0
    /\ fle(fabs(fsub(fmul(q.q0, q.q0), One)), Lit(4, 1000))

\* C3 (amended): a fresh filter stores the identity quaternion; an update
\* with zero gyro and zero accel keeps q1 = q2 = q3 = 0 and multiplies q0 by
\* invSqrt(q0*q0), which is not 1: from the identity |q0| becomes 0.99830717
\* (pattern 0x3F7F910F), and q0*q0 stays within 4e-3 of 1 afterwards.
C3_NearIdentityKept ==
    /\ calls = 0 => Q(mw) = Identity
    /\ (calls > 0 /\ ZeroVec(gyro) /\ ZeroVec(accel) /\ NearIdentity(Q(pre)))
          => /\ NearIdentity(Q(mw))
             /\ mw.q0 = fmul(pre.q0, step.rets[1])
             /\ step.args = <<fmul(pre.q0, pre.q0)>>
             /\ Q(pre) = Identity => fabs(mw.q0) = Flt(0, 1065324815)

C3_Witness ==
    /\ calls >= 2
    /\ ZeroVec(gyro)
    /\ ZeroVec(accel)
    /\ NearIdentity(Q(pre))
    /\ Q(pre) # Identity

\* qDot = 0.5 * q (x) (0, g), the Hamilton product written out
HalfProduct(q, g) ==
    Quat4(fmul(Half, fsub(fsub(fmul(fneg(q.q1), g.x), fmul(q.q2, g.y)), fmul(q.q3, g.z))),
          fmul(Half, fsub(fadd(fmul(q.q0, g.x), fmul(q.q2, g.z)), fmul(q.q3, g.y))),
          fmul(Half, fadd(fsub(fmul(q.q0, g.y), fmul(q.q1, g.z)), fmul(q.q3, g.x))),
          fmul(Half, fsub(fadd(fmul(q.q0, g.z), fmul(q.q1, g.y)), fmul(q.q2, g.x))))

\* q_i + qDot_i * (1 / period), all four from the same q and qDot
PureGyro(q, g, period) ==
    LET d == HalfProduct(q, g)
        k == fdiv(One, period)
    IN Quat4(fadd(q.q0, fmul(d.q0, k)), fadd(q.q1, fmul(d.q1, k)),
             fadd(q.q2, fmul(d.q2, k)), fadd(q.q3, fmul(d.q3, k)))

\* C4: update(g, accel = (0,0,0)) stores exactly the pure gyro integration
\* of the stored quaternion: qDot = 0.5 * q (x) (0, g) with no gradient
\* term, q_i += qDot_i * (1 / sample_period) from the pre-integration
\* state, then the renormalisation: invSqrt of the sum of squares, and each
\* component multiplied by what it returned.
C4_ZeroAccelIsPureGyro ==
    (calls > 0 /\ ZeroVec(accel))
       => LET qi == PureGyro(Q(pre), gyro, pre.sampleFreq)
          IN /\ step.qDot = HalfProduct(Q(pre), gyro)
             /\ step.args = <<NormSq(qi)>>
             /\ Q(mw) = Scale4(qi, step.rets[1])

C4_Witness ==
    /\ calls >= 2
    /\ ZeroVec(accel)
    /\ ~ZeroVec(gyro)
    /\ Q(pre) # Identity
    /\ pre.q1.b # 0

\* C5: two filters constructed alike and fed the same samples return the
\* same quaternions and store the same orientation.
C5_SameOutputs ==
    ret = ret2 /\ Q(mw) = Q(mw2)

\* C6: for the default filter in the identity state, the call main() makes
\* skips the accelerometer feedback and leaves each of |q1|, |q2|, |q3|
\* smaller than |q0|.
C6_MainStaysNearIdentity ==
    (calls = 1 /\ gyro = MainGyro /\ accel = MainAccel)
       => /\ ~step.feedback
          /\ fabs(mw.q1).b < fabs(mw.q0).b
          /\ fabs(mw.q2).b < fabs(mw.q0).b
          /\ fabs(mw.q3).b < fabs(mw.q0).b

\* C7: for a unit-norm stored quaternion and a non-zero accelerometer
\* reading the gradient's sum of squares is strictly positive, so invSqrt
\* never receives 0 there.
C7_GradientSumPositive ==
    (calls > 0 /\ step.feedback /\ fle(NormDev(Q(pre)), Lit(4, 1000)))
       => flt(Zero, step.args[2])

\* C7 (amended): for a non-zero accelerometer reading the gradient's sum of
\* squares is finite and never negative, but it can be exactly 0 (in the
\* identity state with the reading along z every s_i is 0);  invSqrt then
\* receives 0 and returns the finite value of pattern 0x5F898367, either
\* sign, and the scaled gradient and the stored quaternion stay finite.
C7_GradientSumNonNegative ==
    (calls > 0 /\ step.feedback)
       => /\ Finite(step.args[2])
          /\ step.args[2].s = 0
          /\ step.args[2].b = 0
                => /\ fabs(step.rets[2]) = Flt(0, 1602847591)
                   /\ Finite4(step.s)
                   /\ Finite4(Q(mw))

C7_Witness ==
    /\ calls > 0
    /\ step.feedback
    /\ Q(pre) = Identity
    /\ accel = coords3d(Zero, Zero, One)
    /\ step.args[2] = Zero
    /\ step.rets[2].b = 1602847591

\* C8: the accelerometer feedback is skipped if and only if accel.x,
\* accel.y and accel.z all equal 0; any other reading, however small, takes
\* the feedback path: three invSqrt calls and beta * s_i subtracted from
\* qDot_i, against one call and qDot left as the gyroscope gave it.
C8_FeedbackIffNonZero ==
    calls > 0 =>
       IF ZeroVec(accel)
       THEN /\ ~step.feedback
            /\ Len(step.args) = 1
            /\ step.qDot = step.qDotG
       ELSE /\ step.feedback
            /\ Len(step.args) = 3
            /\ step.args[1] = fadd(fadd(fmul(accel.x, accel.x), fmul(accel.y, accel.y)),
                                   fmul(accel.z, accel.z))
            /\ step.qDot.q2 = fsub(step.qDotG.q2, fmul(pre.beta, step.s.q2))

C8_Witness ==
    /\ calls > 0
    /\ accel.x = Tiny
    /\ step.feedback
    /\ step.qDot # step.qDotG

\* C9: for a non-negative finite x with pattern b, invSqrt's estimate is the
\* float of pattern 0x5F3759DF - (b >> 1), from the 32 bits of x alone, and
\* the result is that estimate y refined as y * (1.5 - 0.5*x*y*y).
C9_EstimateFromArgumentAlone ==
    \A i \in 1..Len(step.args) :
       LET x == step.args[i]
           y == Flt(0, Magic - (x.b \div 2))
       IN (x.s = 0 /\ Finite(x))
             => step.rets[i] = fmul(y, fsub(ThreeHalves, fmul(fmul(fmul(Half, x), y), y)))

\* C10: across update calls the stored quaternion is the only filter data
\* that changes, and every call commits it (the stored quaternion is the
\* one returned); the sample period stays 0.015 and the gain 0.1.
C10_OnlyQuaternionChanges ==
    /\ mw.sampleFreq = Flt(0, 1014350479)
    /\ mw.beta = Flt(0, 1036831949)
    /\ DOMAIN mw = {"sampleFreq", "beta", "q0", "q1", "q2", "q3"}
    /\ calls > 0 => /\ Q(mw) = Quat4(ret.x, ret.y, ret.z, ret.s)
                    /\ pre.sampleFreq = mw.sampleFreq
                    /\ pre.beta = mw.beta

C10_Witness ==
    /\ calls >= 2
    /\ Q(mw) # Q(pre)
    /\ Q(pre) # Identity
    /\ step.feedback

====
